---- MODULE Spec2Model ----
(***************************************************************************)
(* Model of mp_project_war_room_v2.py: one Streamlit page script that      *)
(* loads a dataset once (cached), filters it to the selected week,         *)
(* aggregates it per project identity, classifies every aggregated record, *)
(* and renders cards, charts, a heatmap (inside try/except) and a trend    *)
(* line.  Every widget interaction reruns the script from the top.         *)
(*                                                                         *)
(* Numbers.  Completion % values are exact rationals <<n, d>> counted in   *)
(* hundredths of a percent (99.9 is <<9990, 1>>), kept in lowest terms;    *)
(* <<0, 0>> is NaN.  Binary floating-point rounding of a mean is not       *)
(* modelled.  Timestamps are integers counted in ticks, TicksPerDay ticks  *)
(* to a calendar day; 0 is NaT.  Week numbers are positive integers; 0 is  *)
(* a missing week number.  A missing string cell is the string NA.         *)
(*                                                                         *)
(* pandas semantics the script relies on: groupby drops rows with a        *)
(* missing value in a key column (dropna=True); "mean" skips missing       *)
(* values and is NaN for a group with none; "last" is the last non-missing *)
(* value of the group; comparisons with NaN are False; the rows of a group *)
(* keep their input order.  The order of the groups in a result (sorted by *)
(* key) is not modelled: groups are listed by first appearance, and no     *)
(* consumer in the script reads the order.                                 *)
(***************************************************************************)
EXTENDS Integers, Sequences, FiniteSets, TLC

VARIABLES df, selected_week, pc, df_week, proj_summary, today, cards,
          rendered, cat_grid, heat_df, heat_pivot, warning, agg_tl

vars == <<df, selected_week, pc, df_week, proj_summary, today, cards,
          rendered, cat_grid, heat_df, heat_pivot, warning, agg_tl>>

-----------------------------------------------------------------------------
(* Bounds of the model *)

MaxRows == 3

TicksPerDay == 2

(* Program constants: the thresholds 99.9 and 85, in hundredths of a percent *)
CompletedThreshold == 9990

OnTrackThreshold == 8500

(* Missing values as read from the spreadsheet *)
NA == "<NA>"

NaT == 0

NaNWeek == 0

NaN == <<0, 0>>

Zero == <<0, 1>>

-----------------------------------------------------------------------------
(* Exact arithmetic on Completion % values *)

RECURSIVE GCD(_, _)
GCD(a, b) == IF b = 0 THEN a ELSE GCD(b, a % b)

Norm(f) == IF f[2] = 0 THEN NaN
           ELSE LET g == GCD(f[1], f[2]) IN <<f[1] \div g, f[2] \div g>>

Num(v) == <<v, 1>>

FracAdd(a, b) == Norm(<<a[1] * b[2] + b[1] * a[2], a[2] * b[2]>>)

RECURSIVE FracSum(_)
FracSum(s) == IF s = <<>> THEN Zero ELSE FracAdd(Head(s), FracSum(Tail(s)))

(* x >= t and x < t for a float x that may be NaN: False on NaN *)
Ge(x, t) == x[2] # 0 /\ x[1] >= t * x[2]

Lt(x, t) == x[2] # 0 /\ x[1] < t * x[2]

NotNaN(x) == x # NaN

(* mutant of Mean: divides by the number of rows, missing ones included *)
Mean_over_len(vals) ==
    LET v == SelectSeq(vals, NotNaN)
    IN  IF v = <<>> THEN NaN
        ELSE LET s == FracSum(v) IN Norm(<<s[1], s[2] * Len(vals)>>)

(* Series.mean / GroupBy.mean: missing values are skipped *)
Mean(vals) ==
    LET v == SelectSeq(vals, NotNaN)
    IN  IF v = <<>> THEN NaN
        ELSE LET s == FracSum(v) IN Norm(<<s[1], s[2] * Len(v)>>)

NotNA(x) == x # NA

(* mutant of GroupLast: "first" instead of "last" *)
GroupFirst(vals) ==
    LET v == SelectSeq(vals, NotNA)
    IN  IF v = <<>> THEN NA ELSE v[1]

(* GroupBy.last: the last non-missing value of the group *)
GroupLast(vals) ==
    LET v == SelectSeq(vals, NotNA)
    IN  IF v = <<>> THEN NA ELSE v[Len(v)]

-----------------------------------------------------------------------------
(* Rows and generic sequence helpers *)

Row(w, n, c, d, s, h, e, p, f) ==
    [week |-> w, name |-> n, cat |-> c, dept |-> d, sub |-> s, head |-> h,
     ec |-> e, pct |-> p, flag |-> f]

RECURSIVE MapPct(_)
MapPct(s) == IF s = <<>> THEN <<>> ELSE <<Head(s).pct>> \o MapPct(Tail(s))

RECURSIVE MapFlag(_)
MapFlag(s) == IF s = <<>> THEN <<>> ELSE <<Head(s).flag>> \o MapFlag(Tail(s))

Range(s) == {s[i] : i \in DOMAIN s}

(* the six-field identity key of line 49 *)
Key(r) == <<r.name, r.cat, r.dept, r.sub, r.head, r.ec>>

KeyHasNA(r) ==
    \/ r.name = NA \/ r.cat = NA \/ r.dept = NA
    \/ r.sub = NA \/ r.head = NA \/ r.ec = NaT

(* distinct values of k(row), in order of first appearance *)
RECURSIVE Distinct(_, _)
Distinct(s, seen) ==
    IF s = <<>> THEN <<>>
    ELSE IF Head(s) \in seen THEN Distinct(Tail(s), seen)
         ELSE <<Head(s)>> \o Distinct(Tail(s), seen \cup {Head(s)})

RECURSIVE MapKey(_)
MapKey(s) == IF s = <<>> THEN <<>> ELSE <<Key(Head(s))>> \o MapKey(Tail(s))

-----------------------------------------------------------------------------
(* load_data and the sidebar *)

week_options(d) == {d[i].week : i \in DOMAIN d}

SetMax(S) == CHOOSE x \in S : \A y \in S : y <= x

(* st.selectbox(..., index=len(week_options)-1): the last of the sorted     *)
(* options.  sorted() over a list holding NaN has no defined order, so any  *)
(* option may come last then.                                               *)
DefaultWeeks(d) ==
    IF NaNWeek \in week_options(d) THEN week_options(d)
    ELSE {SetMax(week_options(d))}

(* mutant of WeekFilter: keeps the weeks up to the selected one *)
WeekFilter_upto(d, w) ==
    SelectSeq(d, LAMBDA r : r.week # NaNWeek /\ w # NaNWeek /\ r.week <= w)

(* df[df["Week Number"] == selected_week]: NaN equals nothing *)
WeekFilter(d, w) ==
    SelectSeq(d, LAMBDA r : r.week # NaNWeek /\ w # NaNWeek /\ r.week = w)

-----------------------------------------------------------------------------
(* aggregate_project_progress *)

GroupRows(rows, k) == SelectSeq(rows, LAMBDA r : Key(r) = k)

AggRecord(rows, k) ==
    LET g == GroupRows(rows, k)
    IN  [name |-> k[1], cat |-> k[2], dept |-> k[3], sub |-> k[4],
         head |-> k[5], ec |-> k[6],
         pct |-> Mean(MapPct(g)), flag |-> GroupLast(MapFlag(g)),
         status |-> ""]

RECURSIVE AggEach(_, _)
AggEach(rows, keys) ==
    IF keys = <<>> THEN <<>>
    ELSE <<AggRecord(rows, Head(keys))>> \o AggEach(rows, Tail(keys))

(* mutant of GroupKeys: one group per row, equal keys not merged *)
GroupKeys_per_row(rows) == MapKey(rows)

GroupKeys(rows) == Distinct(MapKey(rows), {})

aggregate_project_progress(dfw) ==
    LET rows == SelectSeq(dfw, LAMBDA r : ~KeyHasNA(r))
    IN  AggEach(rows, GroupKeys(rows))

-----------------------------------------------------------------------------
(* derive_status_flag *)

(* pd.to_datetime of a cell that already is a Timestamp returns it *)
to_datetime(e) == e

(* mutant of derive_status_flag: strict thresholds *)
derive_status_flag_strict(row, clock) ==
    IF row.pct[2] # 0 /\ row.pct[1] > CompletedThreshold * row.pct[2]
    THEN "Completed"
    ELSE IF row.pct[2] # 0 /\ row.pct[1] > OnTrackThreshold * row.pct[2]
    THEN "On Track"
    ELSE IF Lt(row.pct, OnTrackThreshold) /\ to_datetime(row.ec) < clock
    THEN "Delayed"
    ELSE "Paused"

(* mutant of derive_status_flag: the raw Status Flag is honoured *)
derive_status_flag_rawflag(row, clock) ==
    IF row.flag = "Out of Scope" THEN "Out of Scope"
    ELSE IF Ge(row.pct, CompletedThreshold) THEN "Completed"
    ELSE IF Ge(row.pct, OnTrackThreshold) THEN "On Track"
    ELSE IF Lt(row.pct, OnTrackThreshold) /\ to_datetime(row.ec) < clock
         THEN "Delayed"
    ELSE "Paused"

derive_status_flag(row, clock) ==
    IF Ge(row.pct, CompletedThreshold) THEN "Completed"
    ELSE IF Ge(row.pct, OnTrackThreshold) THEN "On Track"
    ELSE IF Lt(row.pct, OnTrackThreshold) /\ to_datetime(row.ec) < clock
         THEN "Delayed"
    ELSE "Paused"

RECURSIVE ApplyStatus(_, _)
ApplyStatus(s, clock) ==
    IF s = <<>> THEN <<>>
    ELSE <<[Head(s) EXCEPT !.status = derive_status_flag(Head(s), clock)]>>
         \o ApplyStatus(Tail(s), clock)

status_count(s, status) == Len(SelectSeq(s, LAMBDA r : r.status = status))

-----------------------------------------------------------------------------
(* Heatmap: lines 183-197 *)

HeatKey(r) == <<r.dept, r.name>>

RECURSIVE MapHeatKey(_)
MapHeatKey(s) ==
    IF s = <<>> THEN <<>> ELSE <<HeatKey(Head(s))>> \o MapHeatKey(Tail(s))

HeatRecord(rows, k) ==
    [dept |-> k[1], name |-> k[2],
     pct |-> Mean(MapPct(SelectSeq(rows, LAMBDA r : HeatKey(r) = k)))]

RECURSIVE HeatEach(_, _)
HeatEach(rows, keys) ==
    IF keys = <<>> THEN <<>>
    ELSE <<HeatRecord(rows, Head(keys))>> \o HeatEach(rows, Tail(keys))

(* proj_summary.groupby(["Department", "Project Name"])["Completion %"].mean() *)
HeatGroupBy(summary) ==
    LET rows == SelectSeq(summary, LAMBDA r : r.dept # NA /\ r.name # NA)
    IN  HeatEach(rows, Distinct(MapHeatKey(rows), {}))

(* DataFrame.pivot raises ValueError when an (index, column) pair repeats *)
PivotRaises(hd) ==
    \E i, j \in DOMAIN hd : i # j /\ HeatKey(hd[i]) = HeatKey(hd[j])

CellOf(hd, d, n) ==
    IF \E i \in DOMAIN hd : HeatKey(hd[i]) = <<d, n>>
    THEN (CHOOSE r \in Range(hd) : HeatKey(r) = <<d, n>>).pct
    ELSE NaN

pivot(hd) ==
    LET idx  == {r.dept : r \in Range(hd)}
        cols == {r.name : r \in Range(hd)}
    IN  [index |-> idx, columns |-> cols,
         values |-> [c \in idx \X cols |-> CellOf(hd, c[1], c[2])]]

(* mutant of fillna: the gaps are left unfilled *)
fillna_skipped(pv, v) == pv

fillna(pv, v) ==
    [pv EXCEPT !.values =
        [c \in DOMAIN pv.values |->
            IF pv.values[c] = NaN THEN v ELSE pv.values[c]]]

NoPivot == [index |-> {}, columns |-> {}, values |-> <<>>]

-----------------------------------------------------------------------------
(* Timeline: lines 201-203 *)

SuperCritical == "Super Critical"

TlKey(r) == <<r.week, r.name>>

RECURSIVE MapTlKey(_)
MapTlKey(s) == IF s = <<>> THEN <<>> ELSE <<TlKey(Head(s))>> \o MapTlKey(Tail(s))

TlRecord(rows, k) ==
    [week |-> k[1], name |-> k[2],
     pct |-> Mean(MapPct(SelectSeq(rows, LAMBDA r : TlKey(r) = k)))]

RECURSIVE TlEach(_, _)
TlEach(rows, keys) ==
    IF keys = <<>> THEN <<>>
    ELSE <<TlRecord(rows, Head(keys))>> \o TlEach(rows, Tail(keys))

(* groupby(["Week Number", "Project Name"]).agg({"Completion %": "mean"}) *)
TrendGroupBy(d) ==
    LET rows == SelectSeq(d, LAMBDA r : r.week # NaNWeek /\ r.name # NA)
    IN  TlEach(rows, Distinct(MapTlKey(rows), {}))

(* mutant of timeline_df: the category filter is left out *)
timeline_df_unfiltered(d) == d

(* df[df["Project category"] == "Super Critical"] *)
timeline_df(d) == SelectSeq(d, LAMBDA r : r.cat = SuperCritical)

-----------------------------------------------------------------------------
(* The page run *)

cat_order == <<"Super Critical", "Critical", "Urgent", "Moderate">>

NoCards == [total |-> 0, ontrack |-> 0, delayed |-> 0, completed |-> 0,
            paused |-> 0, outscope |-> 0]

NoGrid == [i \in DOMAIN cat_order |-> <<>>]

(* the clock values pd.Timestamp.today() can return: any instant of today *)
Yesterday == TicksPerDay

TodayStart == 2 * TicksPerDay

Tomorrow == 3 * TicksPerDay

ClockReads == TodayStart .. (TodayStart + TicksPerDay - 1)

(* state of a script run that has executed nothing below the sidebar yet *)
RunStart(w) ==
    /\ selected_week' = w
    /\ pc' = "filter"
    /\ df_week' = <<>>
    /\ proj_summary' = <<>>
    /\ today' = NaT
    /\ cards' = NoCards
    /\ rendered' = {}
    /\ cat_grid' = NoGrid
    /\ heat_df' = <<>>
    /\ heat_pivot' = NoPivot
    /\ warning' = FALSE
    /\ agg_tl' = <<>>

(* the user picks a week in the sidebar (or touches the language or the    *)
(* section radio, whose values the script never reads, and the week stays): *)
(* Streamlit reruns the script, at whatever line the running one is; the    *)
(* cached load_data() returns the same dataset                              *)
SelectWeek ==
    /\ \E w \in week_options(df) : RunStart(w)
    /\ UNCHANGED df

(* line 44 *)
FilterData ==
    /\ pc = "filter"
    /\ df_week' = WeekFilter(df, selected_week)
    /\ pc' = "aggregate"
    /\ UNCHANGED <<df, selected_week, proj_summary, today, cards, rendered,
                   cat_grid, heat_df, heat_pivot, warning, agg_tl>>

(* line 53 *)
Aggregate ==
    /\ pc = "aggregate"
    /\ proj_summary' = aggregate_project_progress(df_week)
    /\ pc' = "classify"
    /\ UNCHANGED <<df, selected_week, df_week, today, cards, rendered,
                   cat_grid, heat_df, heat_pivot, warning, agg_tl>>

(* line 66: apply derive_status_flag to every row; the clock is read here, *)
(* and the whole apply falls within one tick of it.  On a frame without    *)
(* rows apply returns an empty column (pandas 2.x) and no row is labelled. *)
Classify ==
    /\ pc = "classify"
    /\ \E clock \in ClockReads :
          /\ today' = clock
          /\ proj_summary' = ApplyStatus(proj_summary, clock)
    /\ pc' = "cards"
    /\ UNCHANGED <<df, selected_week, df_week, cards, rendered, cat_grid,
                   heat_df, heat_pivot, warning, agg_tl>>

(* lines 86-92 *)
InfoCards ==
    /\ pc = "cards"
    /\ cards' = [total     |-> Len(proj_summary),
                 ontrack   |-> status_count(proj_summary, "On Track"),
                 delayed   |-> status_count(proj_summary, "Delayed"),
                 completed |-> status_count(proj_summary, "Completed"),
                 paused    |-> status_count(proj_summary, "Paused"),
                 outscope  |-> status_count(proj_summary, "Out of Scope")]
    /\ rendered' = rendered \cup {"cards"}
    /\ pc' = "visuals"
    /\ UNCHANGED <<df, selected_week, df_week, proj_summary, today, cat_grid,
                   heat_df, heat_pivot, warning, agg_tl>>

(* lines 97-137: the status bar chart and the status pie *)
MainVisuals ==
    /\ pc = "visuals"
    /\ rendered' = rendered \cup {"bar", "pie"}
    /\ pc' = "grid"
    /\ UNCHANGED <<df, selected_week, df_week, proj_summary, today, cards,
                   cat_grid, heat_df, heat_pivot, warning, agg_tl>>

(* lines 141-178 *)
CategoryGrid ==
    /\ pc = "grid"
    /\ cat_grid' = [i \in DOMAIN cat_order |->
                      SelectSeq(proj_summary, LAMBDA r : r.cat = cat_order[i])]
    /\ rendered' = rendered \cup {"grid"}
    /\ pc' = "heat_group"
    /\ UNCHANGED <<df, selected_week, df_week, proj_summary, today, cards,
                   heat_df, heat_pivot, warning, agg_tl>>

(* line 183, outside the try *)
HeatGroup ==
    /\ pc = "heat_group"
    /\ heat_df' = HeatGroupBy(proj_summary)
    /\ pc' = "heatmap"
    /\ UNCHANGED <<df, selected_week, df_week, proj_summary, today, cards,
                   rendered, cat_grid, heat_pivot, warning, agg_tl>>

(* lines 185-195: the try body runs to its end *)
HeatmapRender ==
    /\ pc = "heatmap"
    /\ ~PivotRaises(heat_df)
    /\ heat_pivot' = fillna(pivot(heat_df), Zero)
    /\ rendered' = rendered \cup {"heatmap"}
    /\ pc' = "timeline"
    /\ UNCHANGED <<df, selected_week, df_week, proj_summary, today, cards,
                   cat_grid, heat_df, warning, agg_tl>>

(* mutant of HeatmapFail: the exception is not caught and ends the run *)
HeatmapFail_uncaught ==
    /\ pc = "heatmap"
    /\ pc' = "crashed"
    /\ UNCHANGED <<df, selected_week, df_week, proj_summary, today, cards,
                   rendered, cat_grid, heat_df, heat_pivot, warning, agg_tl>>

(* lines 196-197: pivot, create_annotated_heatmap or st.plotly_chart raised *)
(* an Exception inside the try (the figure factory does on a matrix without *)
(* cells, a renderer may at any time); it is caught and shown as a warning  *)
HeatmapFail ==
    /\ pc = "heatmap"
    /\ warning' = TRUE
    /\ pc' = "timeline"
    /\ UNCHANGED <<df, selected_week, df_week, proj_summary, today, cards,
                   rendered, cat_grid, heat_df, heat_pivot, agg_tl>>

(* lines 200-214 *)
Timeline ==
    /\ pc = "timeline"
    /\ IF timeline_df(df) # <<>>
       THEN /\ agg_tl' = TrendGroupBy(timeline_df(df))
            /\ rendered' = rendered \cup {"timeline"}
       ELSE /\ agg_tl' = <<>>
            /\ rendered' = rendered
    /\ pc' = "done"
    /\ UNCHANGED <<df, selected_week, df_week, proj_summary, today, cards,
                   cat_grid, heat_df, heat_pivot, warning>>

Next ==
    \/ SelectWeek
    \/ FilterData
    \/ Aggregate
    \/ Classify
    \/ InfoCards
    \/ MainVisuals
    \/ CategoryGrid
    \/ HeatGroup
    \/ HeatmapRender
    \/ HeatmapFail
    \/ Timeline

-----------------------------------------------------------------------------
(* Datasets: the spreadsheet holds at least one and at most MaxRows rows *)

Datasets(R) == UNION {[1 .. k -> R] : k \in 1 .. MaxRows}

(* state after the first run has executed load_data() and the sidebar *)
InitWith(R) ==
    /\ df \in Datasets(R)
    /\ selected_week \in DefaultWeeks(df)
    /\ pc = "filter"
    /\ df_week = <<>>
    /\ proj_summary = <<>>
    /\ today = NaT
    /\ cards = NoCards
    /\ rendered = {}
    /\ cat_grid = NoGrid
    /\ heat_df = <<>>
    /\ heat_pivot = NoPivot
    /\ warning = FALSE
    /\ agg_tl = <<>>

(* rows that differ in identity fields, some missing *)
RowsKeys ==
    {Row(1, n, "Critical", d, s, "H1", Tomorrow, Num(8000), "On Track") :
        n \in {"A", "B", NA}, d \in {"D1", "D2"}, s \in {"S1", NA}}

(* rows that differ in Completion % and raw Status Flag *)
RowsValues ==
    {Row(1, n, "Critical", "D1", "S1", "H1", Tomorrow, p, "On Track") :
        n \in {"A", "B"}, p \in {Num(8000), Num(9000), NaN}}
    \cup
    {Row(1, "A", "Critical", "D1", "S1", "H1", Tomorrow, p, f) :
        p \in {Num(8000), NaN}, f \in {"Out of Scope", NA}}

(* rows around the thresholds and around today *)
RowsStatus ==
    {Row(1, "A", "Critical", "D1", "S1", "H1", e, Num(p), "On Track") :
        e \in {Yesterday, TodayStart, Tomorrow},
        p \in {8499, 8500, 9989, 9990}}
    \cup
    {Row(1, "A", "Critical", "D1", "S1", "H1", e, NaN, f) :
        e \in {Yesterday, Tomorrow}, f \in {"Out of Scope"}}

(* rows that spread over departments and projects *)
RowsHeat ==
    {Row(1, n, "Critical", d, "S1", "H1", Tomorrow, p, "On Track") :
        n \in {"A", "B"}, d \in {"D1", "D2"}, p \in {Num(8000), Num(9000), NaN}}
    \cup
    {Row(1, "A", "Critical", "D1", "S2", "H1", Tomorrow, Num(9000), "On Track")}

(* rows that spread over weeks and categories *)
RowsTrend ==
    {Row(w, "A", c, "D1", "S1", "H1", Tomorrow, p, "On Track") :
        w \in {1, 2}, c \in {SuperCritical, "Critical"},
        p \in {Num(8000), Num(9000)}}
    \cup
    {Row(1, "B", SuperCritical, "D1", "S1", "H1", Tomorrow, Num(9000), "On Track"),
     Row(NaNWeek, "A", SuperCritical, "D1", "S1", "H1", Tomorrow, Num(8000), "On Track")}

(* rows that spread over weeks and categories, one with a missing week *)
(* number; they are due today                                            *)
RowsWeeks ==
    {Row(w, n, c, "D1", "S1", "H1", TodayStart, Num(8000), "On Track") :
        w \in {1, 2}, n \in {"A", NA}, c \in {SuperCritical, "Critical"}}
    \cup
    {Row(NaNWeek, "A", "Critical", "D1", "S1", "H1", TodayStart, Num(8000), "On Track")}

Init == InitWith(RowsWeeks)

Spec == Init /\ [][Next]_vars

InitKeys == InitWith(RowsKeys)

SpecKeys == InitKeys /\ [][Next]_vars

InitValues == InitWith(RowsValues)

SpecValues == InitValues /\ [][Next]_vars

InitStatus == InitWith(RowsStatus)

SpecStatus == InitStatus /\ [][Next]_vars

InitHeat == InitWith(RowsHeat)

SpecHeat == InitHeat /\ [][Next]_vars

InitTrend == InitWith(RowsTrend)

SpecTrend == InitTrend /\ [][Next]_vars

-----------------------------------------------------------------------------
(* Properties *)

Aggregated == pc \notin {"filter", "aggregate"}

Classified == pc \notin {"filter", "aggregate", "classify"}

(* m is the arithmetic mean of the numbers in vals (none of them NaN),    *)
(* stated by cross-multiplication over a common denominator               *)
RECURSIVE ProdDen(_)
ProdDen(vals) == IF vals = <<>> THEN 1 ELSE Head(vals)[2] * ProdDen(Tail(vals))

RECURSIVE ScaledSum(_, _)
ScaledSum(vals, P) ==
    IF vals = <<>> THEN 0
    ELSE Head(vals)[1] * (P \div Head(vals)[2]) + ScaledSum(Tail(vals), P)

IsMeanOf(m, vals) ==
    LET P == ProdDen(vals)
    IN  /\ vals # <<>>
        /\ m[2] # 0
        /\ m[1] * Len(vals) * P = ScaledSum(vals, P) * m[2]

(* the rows of the week's subset that carry the identity of record rec *)
RowsOf(rec) == SelectSeq(df_week, LAMBDA r : Key(r) = Key(rec))

SummaryKeys == {Key(proj_summary[j]) : j \in DOMAIN proj_summary}

(* C1, as stated: the aggregated records carry exactly the identity keys  *)
(* that occur in the input rows, each key once.                           *)
C1_OneRecordPerInputKey ==
    Aggregated =>
        /\ SummaryKeys = {Key(df_week[i]) : i \in DOMAIN df_week}
        /\ \A i, j \in DOMAIN proj_summary :
              Key(proj_summary[i]) = Key(proj_summary[j]) => i = j

(* C1, amended: the aggregated records carry exactly the identity keys of *)
(* the input rows in which none of the six key fields is missing, each    *)
(* key once; rows with a missing key field contribute no record.          *)
C1_OneRecordPerCompleteKey ==
    Aggregated =>
        /\ SummaryKeys =
              {Key(df_week[i]) : i \in {k \in DOMAIN df_week : ~KeyHasNA(df_week[k])}}
        /\ \A i, j \in DOMAIN proj_summary :
              Key(proj_summary[i]) = Key(proj_summary[j]) => i = j

C1_Witness ==
    /\ Aggregated
    /\ Len(df_week) = 3
    /\ Len(proj_summary) = 1
    /\ \E i \in DOMAIN df_week : KeyHasNA(df_week[i])
    /\ \E i, j \in DOMAIN df_week :
          i # j /\ ~KeyHasNA(df_week[i]) /\ Key(df_week[i]) = Key(df_week[j])

(* C2, as stated: the aggregated Completion % of every group is the sum   *)
(* of the values of the group's rows divided by the number of its rows.   *)
C2_MeanOverRowCount ==
    Aggregated =>
        \A j \in DOMAIN proj_summary :
            LET vals == MapPct(RowsOf(proj_summary[j]))
            IN  IF \E i \in DOMAIN vals : vals[i] = NaN
                THEN proj_summary[j].pct = NaN
                ELSE IsMeanOf(proj_summary[j].pct, vals)

(* C2, amended: the aggregated Completion % of every group is the sum of  *)
(* the non-missing values of the group's rows divided by the number of    *)
(* rows that have a value, and is missing when no row has one.            *)
C2_MeanOverPresentValues ==
    Aggregated =>
        \A j \in DOMAIN proj_summary :
            LET vals == SelectSeq(MapPct(RowsOf(proj_summary[j])),
                                  LAMBDA v : v # NaN)
            IN  IF vals = <<>>
                THEN proj_summary[j].pct = NaN
                ELSE IsMeanOf(proj_summary[j].pct, vals)

C2_Witness ==
    /\ Aggregated
    /\ \E j \in DOMAIN proj_summary :
          /\ MapPct(RowsOf(proj_summary[j])) = <<Num(8000), NaN, Num(9000)>>
          /\ proj_summary[j].pct = Num(8500)

(* C3: a record at or above 99.9 % is Completed and a record at or above  *)
(* 85 % and below 99.9 % is On Track, whatever its expected completion.   *)
C3_ThresholdsFirstInclusive ==
    Classified =>
        \A j \in DOMAIN proj_summary :
            LET r == proj_summary[j]
            IN  /\ (r.pct[2] # 0 /\ r.pct[1] >= 9990 * r.pct[2])
                       => r.status = "Completed"
                /\ (r.pct[2] # 0 /\ r.pct[1] >= 8500 * r.pct[2]
                                 /\ r.pct[1] < 9990 * r.pct[2])
                       => r.status = "On Track"

C3_Witness ==
    /\ Classified
    /\ \E i, j \in DOMAIN proj_summary :
          /\ proj_summary[i].pct = Num(9990)
          /\ proj_summary[i].status = "Completed"
          /\ proj_summary[j].pct = Num(8500)
          /\ proj_summary[j].ec = Yesterday
          /\ proj_summary[j].status = "On Track"

DateOf(t) == t \div TicksPerDay

(* C4, as stated: a record below 85 % is Delayed exactly when the date of *)
(* its expected completion is before the date of the run, else Paused.    *)
C4_DelayedOnlyBeforeToday ==
    Classified =>
        \A j \in DOMAIN proj_summary :
            LET r == proj_summary[j]
            IN  (r.pct[2] # 0 /\ r.pct[1] < 8500 * r.pct[2]) =>
                    r.status = IF DateOf(r.ec) < DateOf(today)
                               THEN "Delayed" ELSE "Paused"

(* C5, as stated: the aggregated Status Flag of every group is the Status *)
(* Flag of the group's last row in input order.                           *)
C5_FlagOfLastRow ==
    Aggregated =>
        \A j \in DOMAIN proj_summary :
            LET g == RowsOf(proj_summary[j])
            IN  g # <<>> /\ proj_summary[j].flag = g[Len(g)].flag

(* C5, amended: the aggregated Status Flag of every group is the last     *)
(* non-missing Status Flag among the group's rows in input order, and is  *)
(* missing when every row of the group has none.                          *)
C5_LastPresentFlag ==
    Aggregated =>
        \A j \in DOMAIN proj_summary :
            LET g == RowsOf(proj_summary[j])
                I == {i \in DOMAIN g : g[i].flag # NA}
            IN  /\ g # <<>>
                /\ proj_summary[j].flag =
                      IF I = {} THEN NA ELSE g[SetMax(I)].flag

C5_Witness ==
    /\ Aggregated
    /\ \E j \in DOMAIN proj_summary :
          /\ MapFlag(RowsOf(proj_summary[j])) = <<"On Track", "Out of Scope", NA>>
          /\ proj_summary[j].flag = "Out of Scope"

(* the aggregated records behind the cell (d, n), all or with a value *)
CellRecords(d, n) ==
    SelectSeq(proj_summary, LAMBDA r : r.dept = d /\ r.name = n)

CellValues(d, n) == SelectSeq(MapPct(CellRecords(d, n)), LAMBDA v : v # NaN)

HeatLabelsExact ==
    /\ heat_pivot.index = {proj_summary[j].dept : j \in DOMAIN proj_summary}
    /\ heat_pivot.columns = {proj_summary[j].name : j \in DOMAIN proj_summary}
    /\ DOMAIN heat_pivot.values = heat_pivot.index \X heat_pivot.columns

(* C6, as stated: rows are the departments and columns the project names  *)
(* of the aggregated records; a cell without a contributing record holds  *)
(* 0 and a cell with contributing records holds the mean of their values. *)
C6_CellsZeroOrMean ==
    "heatmap" \in rendered =>
        /\ HeatLabelsExact
        /\ \A c \in DOMAIN heat_pivot.values :
              IF CellRecords(c[1], c[2]) = <<>>
              THEN heat_pivot.values[c] = Zero
              ELSE IsMeanOf(heat_pivot.values[c], CellValues(c[1], c[2]))

(* C6, amended: as stated, except that a cell with contributing records   *)
(* holds the mean of their non-missing values and holds 0 when the value  *)
(* of every contributing record is missing.                               *)
C6_CellsZeroOrPresentMean ==
    "heatmap" \in rendered =>
        /\ HeatLabelsExact
        /\ \A c \in DOMAIN heat_pivot.values :
              IF CellValues(c[1], c[2]) = <<>>
              THEN heat_pivot.values[c] = Zero
              ELSE IsMeanOf(heat_pivot.values[c], CellValues(c[1], c[2]))

C6_Witness ==
    /\ "heatmap" \in rendered
    /\ Cardinality(heat_pivot.index) = 2
    /\ Cardinality(heat_pivot.columns) = 2
    /\ \E c \in DOMAIN heat_pivot.values :
          CellRecords(c[1], c[2]) = <<>> /\ heat_pivot.values[c] = Zero
    /\ \E c \in DOMAIN heat_pivot.values :
          Len(CellRecords(c[1], c[2])) = 2 /\ heat_pivot.values[c] = Num(8500)

(* the trend points obtained by aggregating every row per (week, project) *)
(* and then keeping the points whose group holds a Super Critical row     *)
AggregateThenFilter(d) ==
    {p \in Range(TrendGroupBy(d)) :
        \E i \in DOMAIN d :
            /\ d[i].week = p.week /\ d[i].name = p.name
            /\ d[i].cat = SuperCritical}

(* no (week, project) pair has Super Critical rows and rows of another    *)
(* category                                                               *)
CategoryUniform(d) ==
    \A i, j \in DOMAIN d :
        (d[i].week # NaNWeek /\ d[i].name # NA /\ TlKey(d[i]) = TlKey(d[j]))
            => ((d[i].cat = SuperCritical) <=> (d[j].cat = SuperCritical))

EarlierSections == {"cards", "bar", "pie", "grid"}

(* C8: a run that leaves the heatmap position without the heatmap drawn   *)
(* (and is not restarted) shows a warning and goes on to the timeline     *)
(* with the earlier sections, cards and records as they were; the step    *)
(* after it (unless the page is restarted) is the timeline section        *)
(* ending the run, which draws the trend when there are Super Critical    *)
(* rows; a warning is only ever seen at the timeline or at the end of a   *)
(* run, with every earlier section rendered.                              *)
C8_HeatmapFailureContained ==
    /\ [][(pc = "heatmap" /\ pc' # "filter" /\ "heatmap" \notin rendered')
            => /\ warning'
               /\ pc' = "timeline"
               /\ rendered' = rendered
               /\ cards' = cards
               /\ proj_summary' = proj_summary]_vars
    /\ [][(warning /\ pc = "timeline" /\ pc' # "filter")
            => /\ pc' = "done"
               /\ warning'
               /\ rendered \subseteq rendered'
               /\ ("timeline" \in rendered'
                      <=> \E i \in DOMAIN df : df[i].cat = SuperCritical)]_vars
    /\ [](warning =>
            /\ pc \in {"timeline", "done"}
            /\ EarlierSections \subseteq rendered)

C8_Witness ==
    /\ warning
    /\ pc = "done"
    /\ "timeline" \in rendered
    /\ EarlierSections \subseteq rendered
    /\ cards.total > 0

DerivedStatuses == {"Completed", "On Track", "Delayed", "Paused"}

(* C9: every aggregated record gets one of the four derived statuses,     *)
(* never "Out of Scope"; the Out of Scope card shows 0 and the other four *)
(* cards add up to the Total Projects card.                               *)
C9_FourStatusesOnly ==
    /\ Classified =>
          \A j \in DOMAIN proj_summary :
              proj_summary[j].status \in DerivedStatuses
    /\ "cards" \in rendered =>
          /\ cards.total = Len(proj_summary)
          /\ cards.outscope = 0
          /\ cards.ontrack + cards.delayed + cards.completed + cards.paused
                = cards.total

C9_Witness ==
    /\ "cards" \in rendered
    /\ cards.total >= 2
    /\ cards.paused >= 1
    /\ \E j \in DOMAIN proj_summary :
          /\ proj_summary[j].flag = "Out of Scope"
          /\ proj_summary[j].pct = NaN
          /\ proj_summary[j].status = "Paused"

(* a row whose Week Number equals the selected week (NaN equals nothing) *)
InSelectedWeek(r) == r.week # NaNWeek /\ r.week = selected_week

(* the records computed from scratch from the rows of the selected week *)
FromScratch ==
    ApplyStatus(aggregate_project_progress(SelectSeq(df, InSelectedWeek)), today)

Positions == {"filter", "aggregate", "classify", "cards", "visuals", "grid",
              "heat_group", "heatmap", "timeline", "done"}

(* C10: no step changes the loaded dataset; whatever was selected before, *)
(* the classified records are those computed from scratch from the rows   *)
(* of the selected week with the clock value of this run; a week without  *)
(* matching rows gives no records, and no run ends in an error.           *)
C10_RecomputedFromDataset ==
    /\ [][df' = df]_vars
    /\ [](/\ pc \in Positions
          /\ Classified => proj_summary = FromScratch
          /\ (Classified /\ \A i \in DOMAIN df : ~InSelectedWeek(df[i]))
                => proj_summary = <<>>)

C10_Witness ==
    /\ pc = "done"
    /\ NaNWeek \notin week_options(df)
    /\ selected_week # SetMax(week_options(df))
    /\ proj_summary # <<>>

C10_EmptyWeekWitness ==
    /\ pc = "done"
    /\ selected_week = NaNWeek
    /\ proj_summary = <<>>

====
